---- MODULE Spec2Model ----
(***************************************************************************)
(* Model of the go-internist helper scripts:                               *)
(*   tree.py, tee.py, zprj_tree.py  three directory-tree printers          *)
(*   ai.py                          connectivity check + 4-case smoke test *)
(*   api.py                         one-shot translation call              *)
(* One behaviour is one run of one script.  For the tree printers the      *)
(* environment first builds a directory fixture (mkdir / touch / chmod),  *)
(* then the script walks it.  For the HTTP scripts the remote endpoint's   *)
(* answer to each POST is chosen nondeterministically.                     *)
(*                                                                         *)
(* Text is a sequence of characters; a character is a one-element string,  *)
(* and the non-ASCII glyphs are written by their code point ("U+2514").    *)
(***************************************************************************)
EXTENDS Integers, Sequences, FiniteSets, TLC

\* ------------------------------------------------------------------ bounds
MaxEntries == 3    \* entries in the directory fixture
MaxDepth == 3      \* nesting depth of the fixture (1 = children of the root)
MaxLen == 3        \* length of an output_text value returned by the endpoint

\* -------------------------------------------------------------- characters
LowerAlpha == <<"a","b","c","d","e","f","g","h","i","j","k","l","m",
                "n","o","p","q","r","s","t","u","v","w","x","y","z">>
UpperAlpha == <<"A","B","C","D","E","F","G","H","I","J","K","L","M",
                "N","O","P","Q","R","S","T","U","V","W","X","Y","Z">>

IndexIn(c, alpha) == CHOOSE i \in 1..Len(alpha) : alpha[i] = c
IsLowerCh(c) == \E i \in 1..Len(LowerAlpha) : LowerAlpha[i] = c
IsUpperCh(c) == \E i \in 1..Len(UpperAlpha) : UpperAlpha[i] = c

\* Unicode code point of a character: Python orders str by code point.
Code(c) ==
    IF IsLowerCh(c) THEN 96 + IndexIn(c, LowerAlpha)
    ELSE IF IsUpperCh(c) THEN 64 + IndexIn(c, UpperAlpha)
    ELSE IF c = " " THEN 32
    ELSE IF c = "\"" THEN 34
    ELSE IF c = "." THEN 46
    ELSE IF c = "_" THEN 95
    ELSE 9472   \* box-drawing block and above; never part of a name here

\* str.lower() on one character / on a string
LowerCh(c) == IF IsUpperCh(c) THEN LowerAlpha[IndexIn(c, UpperAlpha)] ELSE c
lower(s) == [i \in 1..Len(s) |-> LowerCh(s[i])]

\* Python's str < str: lexicographic by code point, a proper prefix is smaller.
RECURSIVE StrLess(_, _)
StrLess(a, b) ==
    IF b = <<>> THEN FALSE
    ELSE IF a = <<>> THEN TRUE
    ELSE IF Code(a[1]) # Code(b[1]) THEN Code(a[1]) < Code(b[1])
    ELSE StrLess(Tail(a), Tail(b))

\* str.startswith
startswith(s, p) == Len(s) >= Len(p) /\ SubSeq(s, 1, Len(p)) = p

\* ------------------------------------------------------------------- names
NameA == <<"a">>
NameB == <<"B">>
DotGit == <<".","g","i","t">>
DotGithub == <<".","g","i","t","h","u","b">>
NodeModules == <<"n","o","d","e","_","m","o","d","u","l","e","s">>
PyCache == <<"_","_","p","y","c","a","c","h","e","_","_">>
TeePy == <<"t","e","e",".","p","y">>

\* The names an entry of the fixture may carry.
Names == {NameA, NameB, DotGit, DotGithub, PyCache, TeePy}

\* ------------------------------------------------------------------ glyphs
Branch == <<"U+251C","U+2500","U+2500"," ">>     \* "├── "
Corner == <<"U+2514","U+2500","U+2500"," ">>     \* "└── "
Bar == <<"U+2502"," "," "," ">>                  \* "│   "
Blank == <<" "," "," "," ">>                     \* "    "
FolderIcon == <<"U+1F4C1"," ">>                  \* "📁 "
FileIcon == <<"U+1F4C4"," ">>                    \* "📄 "

VARIABLES
    script,      \* the script this behaviour runs ("none" until one starts)
    fs,          \* the directory fixture: a set of entries below the root
    ran,         \* the tree printer has run
    lines,       \* the lines it emitted, in order
    crashed,     \* an exception escaped the script
    pc,          \* position of an HTTP script: "start", "translation", "done", "crashed"
    case_i,      \* ai.py: the loop's i, the test case number (enumerate(test_cases, 1))
    posts,       \* ai.py: the test cases test_avalai_translation has POSTed, in order
    last,        \* the endpoint's answer to the latest POST
    printed      \* what the latest step printed

vars == <<script, fs, ran, lines, crashed, pc, case_i, posts, last, printed>>
http == <<pc, case_i, posts, last, printed>>

TreeScripts == {"tree.py", "tee.py", "zprj_tree.py"}

\* -------------------------------------------------------------- filesystem
\* An entry: its path below the root (a sequence of names), its kind, and
\* for a directory whether os.listdir on it succeeds.
Paths(F) == {e.path : e \in F}
EntryAt(F, p) == CHOOSE e \in F : e.path = p
Parent(p) == SubSeq(p, 1, Len(p) - 1)
Last(s) == s[Len(s)]

isdir(F, p) == p = <<>> \/ (p \in Paths(F) /\ EntryAt(F, p).kind = "dir")
isfile(F, p) == p \in Paths(F) /\ EntryAt(F, p).kind = "file"
\* os.listdir(p) raises PermissionError
ListingFails(F, p) == p # <<>> /\ ~EntryAt(F, p).readable
\* os.listdir(p): the names directly inside p
listdir(F, p) == {Last(e.path) : e \in {x \in F : Len(x.path) = Len(p) + 1 /\ Parent(x.path) = p}}

\* sorted(): the elements of S in ascending order; less is the set of the
\* pairs <<x, y>> with key(x) < key(y), a strict total order on S
RECURSIVE SortBy(_, _)
SortBy(S, less) ==
    IF S = {} THEN <<>>
    ELSE LET m == CHOOSE x \in S : \A y \in S \ {x} : <<x, y>> \in less
         IN <<m>> \o SortBy(S \ {m}, less)

\* [x for x in seq if x in keep]
RECURSIVE Filter(_, _)
Filter(seq, keep) ==
    IF seq = <<>> THEN <<>>
    ELSE (IF Head(seq) \in keep THEN <<Head(seq)>> ELSE <<>>) \o Filter(Tail(seq), keep)

\* str < str as a relation on a set of names
StrOrder(S) == {pr \in S \X S : StrLess(pr[1], pr[2])}

\* A traversal's result: the lines emitted (each with the entry it is for)
\* and whether the call returned (ok) or an exception left it.
Returned(ls) == [lines |-> ls, ok |-> TRUE]
Raised(ls) == [lines |-> ls, ok |-> FALSE]
Line(p, text) == [entry |-> p, text |-> text]

\* ----------------------------------------------------------------- tree.py
tree_exclude == {NodeModules, DotGit}

\* (mutant) the exclude filter forgotten
tree_entries_unfiltered(F, path) ==
    SortBy(listdir(F, path), StrOrder(listdir(F, path)))

tree_entries(F, path) ==
    LET kept == {e \in listdir(F, path) : e \notin tree_exclude}
    IN SortBy(kept, StrOrder(kept))

tree_connector(i, n) == IF i = n THEN Corner ELSE Branch

tree_extension(i, n) == IF i = n THEN Blank ELSE Bar

RECURSIVE tree(_, _, _), tree_loop(_, _, _, _, _)
tree(F, path, prefix) ==
    IF ListingFails(F, path) THEN Raised(<<>>)
    ELSE tree_loop(F, path, prefix, tree_entries(F, path), 1)

\* iterations i..n of the for loop (i is 1-based here, 0-based in the source)
tree_loop(F, path, prefix, entries, i) ==
    IF i > Len(entries) THEN Returned(<<>>)
    ELSE LET entry == entries[i]
             full == Append(path, entry)
             line == Line(full, prefix \o tree_connector(i, Len(entries)) \o entry)
             sub == IF isdir(F, full)
                    THEN tree(F, full, prefix \o tree_extension(i, Len(entries)))
                    ELSE Returned(<<>>)
         IN IF ~sub.ok THEN Raised(<<line>> \o sub.lines)
            ELSE LET rest == tree_loop(F, path, prefix, entries, i + 1)
                 IN [lines |-> <<line>> \o sub.lines \o rest.lines, ok |-> rest.ok]

\* ------------------------------------------------------------------ tee.py
build_tree_excluded(e) ==
    \/ e \in {NodeModules, DotGit}
    \/ startswith(e, DotGit)
    \/ e = TeePy

\* (mutant) sort key (not isdir, e): the names compared as they are
build_tree_less_cased(F, root, a, b) ==
    LET da == isdir(F, Append(root, a))
        db == isdir(F, Append(root, b))
    IN IF da # db THEN da ELSE StrLess(a, b)

\* sort key (not isdir, e.lower()); False < True
build_tree_less(F, root, a, b) ==
    LET da == isdir(F, Append(root, a))
        db == isdir(F, Append(root, b))
    IN IF da # db THEN da ELSE StrLess(lower(a), lower(b))

build_tree_entries(F, root) ==
    LET kept == {e \in listdir(F, root) : ~build_tree_excluded(e)}
    IN SortBy(kept, {pr \in kept \X kept : build_tree_less(F, root, pr[1], pr[2])})

\* (mutant) the corner put on the first sibling
build_tree_connector_first(i, n) == IF i = 1 THEN Corner ELSE Branch

build_tree_connector(i, n) == IF i = n THEN Corner ELSE Branch

build_tree_extension(i, n) == IF i = n THEN Blank ELSE Bar

RECURSIVE build_tree(_, _, _), build_tree_loop(_, _, _, _, _)
build_tree(F, root, prefix) ==
    IF ListingFails(F, root) THEN Raised(<<>>)
    ELSE build_tree_loop(F, root, prefix, build_tree_entries(F, root), 1)

\* The lines are returned, not printed: an exception discards them all.
build_tree_loop(F, root, prefix, entries, i) ==
    IF i > Len(entries) THEN Returned(<<>>)
    ELSE LET entry == entries[i]
             path == Append(root, entry)
             line == Line(path, prefix \o build_tree_connector(i, Len(entries)) \o entry)
             sub == IF isdir(F, path)
                    THEN build_tree(F, path, prefix \o build_tree_extension(i, Len(entries)))
                    ELSE Returned(<<>>)
         IN IF ~sub.ok THEN Raised(<<>>)
            ELSE LET rest == build_tree_loop(F, root, prefix, entries, i + 1)
                 IN IF ~rest.ok THEN Raised(<<>>)
                    ELSE Returned(<<line>> \o sub.lines \o rest.lines)

\* ------------------------------------------------------------ zprj_tree.py
SKIP == {NodeModules, DotGit, PyCache}

print_tree_dirs(F, start_path) ==
    LET entries == SortBy(listdir(F, start_path), StrOrder(listdir(F, start_path)))
    IN Filter(entries, {d \in Names : isdir(F, Append(start_path, d)) /\ d \notin SKIP})

print_tree_files(F, start_path) ==
    LET entries == SortBy(listdir(F, start_path), StrOrder(listdir(F, start_path)))
    IN Filter(entries, {f \in Names : isfile(F, Append(start_path, f))})

print_tree_connector(index, total) == IF index = total THEN Corner ELSE Branch

\* (mutant) the prefix passed down as it is
print_tree_same_prefix(prefix, index, total) == prefix

print_tree_new_prefix(prefix, index, total) ==
    prefix \o (IF index = total THEN Blank ELSE Bar)

\* (mutant) the PermissionError not caught
print_tree_on_error_raise == Raised(<<>>)

\* except PermissionError: return
print_tree_on_error == Returned(<<>>)

RECURSIVE print_tree(_, _, _), print_tree_loop(_, _, _, _, _)
print_tree(F, start_path, prefix) ==
    IF ListingFails(F, start_path) THEN print_tree_on_error
    ELSE print_tree_loop(F, start_path, prefix,
                         print_tree_dirs(F, start_path) \o print_tree_files(F, start_path), 1)

print_tree_loop(F, start_path, prefix, names, index) ==
    IF index > Len(names) THEN Returned(<<>>)
    ELSE LET name == names[index]
             path == Append(start_path, name)
             total == Len(names)
             connector == print_tree_connector(index, total)
             sub == IF isdir(F, path)
                    THEN print_tree(F, path, print_tree_new_prefix(prefix, index, total))
                    ELSE Returned(<<>>)
             line == IF isdir(F, path)
                     THEN Line(path, prefix \o connector \o FolderIcon \o name)
                     ELSE Line(path, prefix \o connector \o FileIcon \o name)
         IN IF ~sub.ok THEN Raised(<<line>> \o sub.lines)
            ELSE LET rest == print_tree_loop(F, start_path, prefix, names, index + 1)
                 IN [lines |-> <<line>> \o sub.lines \o rest.lines, ok |-> rest.ok]


\* ------------------------------------------------------ the HTTP endpoint
\* What requests.post can do: raise, or return a response with a status and
\* a body.  A body is unparsable (response.json() raises: a ValueError with
\* an older requests, requests' own JSONDecodeError, a RequestException,
\* since 2.27), or JSON of one of the shapes the scripts distinguish.
TextAlphabet == {" ", "\"", "h"}
Strings(n) == UNION {[1..k -> TextAlphabet] : k \in 0..n}
Hello == <<"h","e","l","l","o">>
QuotedHello == <<"\"">> \o Hello \o <<"\"">>
Texts == Strings(MaxLen) \cup {Hello, QuotedHello}

Statuses == {200, 201, 401, 500}
ErrorStatuses == {st \in Statuses : st >= 400}

NoBody == [shape |-> "none", text |-> <<>>, raises |-> "none"]
BodyOf(shape) == [shape |-> shape, text |-> <<>>, raises |-> "none"]
NotJson == {[shape |-> "not_json", text |-> <<>>, raises |-> r] : r \in {"ValueError", "JSONDecodeError"}}
Raise(exc) == [kind |-> exc, status |-> 0, body |-> NoBody]
Responses(statuses, bodies) ==
    {[kind |-> "response", status |-> st, body |-> b] : st \in statuses, b \in bodies}
PostRaises == {Raise("Timeout"), Raise("ConnectionError")}

\* /responses: a JSON object with or without "output_text", whose value is a
\* string or something else (null, a number, a list)
AiBodies ==
    NotJson
    \cup {BodyOf("no_output_text"), BodyOf("output_text_other")}
    \cup {[shape |-> "output_text_str", text |-> t, raises |-> "none"] : t \in Texts}
\* an error status comes with an error object or with text that is no JSON
AiAnswers ==
    PostRaises
    \cup Responses({200}, AiBodies)
    \cup Responses(ErrorStatuses, NotJson \cup {BodyOf("no_output_text")})

\* /chat/completions: JSON that is no object, or an object at some stage of
\* choices[0].message.content
ApiBodies ==
    NotJson
    \cup {BodyOf(sh) : sh \in {"not_object", "no_choices", "empty_choices",
                               "no_message", "no_content", "content"}}
ApiAnswers == PostRaises \cup Responses(Statuses, ApiBodies)

NoAnswer == Raise("none")

\* requests.exceptions: Timeout and ConnectionError are RequestExceptions, and
\* so is requests' JSONDecodeError; everything here is an Exception.
IsRequestException(exc) == exc \in {"Timeout", "ConnectionError", "JSONDecodeError"}

Msg(m) == [msg |-> m, arg |-> <<>>]
Said(m) == \E k \in 1..Len(printed) : printed[k].msg = m

\* str.strip(chars): drop the leading and the trailing characters in chars
RECURSIVE lstrip(_, _), rstrip(_, _)
lstrip(t, chars) ==
    IF t # <<>> /\ Head(t) \in chars THEN lstrip(Tail(t), chars) ELSE t
rstrip(t, chars) ==
    IF t # <<>> /\ t[Len(t)] \in chars THEN rstrip(SubSeq(t, 1, Len(t) - 1), chars) ELSE t
strip(t, chars) == rstrip(lstrip(t, chars), chars)
Whitespace == {" "}

\* ------------------------------------------------------------------- ai.py
TestCases == 4    \* len(test_cases)

\* (mutant) the two strips in the other order
translation_strip_swapped(t) == strip(strip(t, {"\""}), Whitespace)

\* line 82: result["output_text"].strip().strip('"')
translation_strip(t) == strip(strip(t, Whitespace), {"\""})

translation_report(translation) ==
    <<[msg |-> "Translation", arg |-> translation], Msg("Length")>>
    \o (IF translation # <<>> THEN <<Msg("Translation is not empty")>>
        ELSE <<Msg("Translation is empty!")>>)

\* lines 58-100: the body of the try block; raised names the exception that
\* leaves it ("none": it ran to its end)
translation_try(answer) ==
    LET sent == <<Msg("Sending request...")>>
        head == sent \o <<Msg("Response time"), Msg("Status code")>>
        body == answer.body
    IN IF answer.kind # "response" THEN [printed |-> sent, raised |-> answer.kind]
       ELSE IF answer.status = 200
       THEN IF body.shape = "not_json" THEN [printed |-> head, raised |-> body.raises]
            ELSE LET ok == head \o <<Msg("Success!"), Msg("Raw response")>>
                 IN IF body.shape = "no_output_text"
                    THEN [printed |-> ok \o <<Msg("No 'output_text' field in response")>>,
                          raised |-> "none"]
                    ELSE IF body.shape = "output_text_other"
                    THEN [printed |-> ok, raised |-> "AttributeError"]
                    ELSE [printed |-> ok \o translation_report(translation_strip(body.text)),
                          raised |-> "none"]
       ELSE [printed |-> head \o <<Msg("Error response:")>>
                         \o (IF body.shape = "not_json" THEN <<Msg("response.text")>>
                             ELSE <<Msg("error_data")>>),
             raised |-> "none"]

\* (mutant) except RequestException placed before except Timeout
translation_except_reordered(exc) ==
    IF IsRequestException(exc) THEN [printed |-> <<Msg("Network error")>>, escaped |-> FALSE]
    ELSE IF exc = "Timeout" THEN [printed |-> <<Msg("Request timed out (30s)")>>, escaped |-> FALSE]
    ELSE [printed |-> <<Msg("Unexpected error")>>, escaped |-> FALSE]

\* (mutant) no final except Exception clause
translation_except_narrow(exc) ==
    IF exc = "Timeout" THEN [printed |-> <<Msg("Request timed out (30s)")>>, escaped |-> FALSE]
    ELSE IF IsRequestException(exc) THEN [printed |-> <<Msg("Network error")>>, escaped |-> FALSE]
    ELSE [printed |-> <<>>, escaped |-> TRUE]

\* lines 102-107: the except clauses, in their order
translation_except(exc) ==
    IF exc = "Timeout" THEN [printed |-> <<Msg("Request timed out (30s)")>>, escaped |-> FALSE]
    ELSE IF IsRequestException(exc) THEN [printed |-> <<Msg("Network error")>>, escaped |-> FALSE]
    ELSE [printed |-> <<Msg("Unexpected error")>>, escaped |-> FALSE]

\* lines 144-149
connectivity_status_message(status) ==
    IF status = 401 THEN Msg("API Key is invalid or expired")
    ELSE IF status = 200 THEN Msg("API Key is valid")
    ELSE Msg("Unexpected status code")

\* lines 135-151: the body of the try block
connectivity_try(answer) ==
    IF answer.kind # "response" THEN [printed |-> <<>>, raised |-> answer.kind]
    ELSE LET head == <<Msg("Status"), connectivity_status_message(answer.status)>>
         IN IF answer.body.shape = "not_json"
            THEN [printed |-> head, raised |-> answer.body.raises]
            ELSE [printed |-> head \o <<Msg("Response:")>>, raised |-> "none"]

\* (mutant) except requests.exceptions.RequestException
connectivity_except_narrow(exc) ==
    IF IsRequestException(exc) THEN [printed |-> <<Msg("Connection failed")>>, escaped |-> FALSE]
    ELSE [printed |-> <<>>, escaped |-> TRUE]

\* lines 153-154: except Exception
connectivity_except(exc) == [printed |-> <<Msg("Connection failed")>>, escaped |-> FALSE]

\* What a try statement leaves behind: the block's prints, then the handler's.
TryExcept(block, handler) ==
    IF block.raised = "none" THEN [printed |-> block.printed, escaped |-> FALSE]
    ELSE [printed |-> block.printed \o handler.printed, escaped |-> handler.escaped]

\* ------------------------------------------------------------------ api.py
\* line 36: response.ok
response_ok(status) == status < 400

\* lines 39-43: try data['choices'][0]['message']['content'] except Exception
api_extract(body) ==
    IF body.shape = "content" THEN <<Msg("TRANSLATED:")>>
    ELSE <<Msg("ERROR extracting translation:")>>

\* lines 31-45: the script; raised names the exception that ends it
api_script(answer) ==
    IF answer.kind # "response" THEN [printed |-> <<>>, raised |-> answer.kind]
    ELSE LET head == <<Msg("Status:"), Msg("Body:")>>
         IN IF response_ok(answer.status)
            THEN IF answer.body.shape = "not_json"
                 THEN [printed |-> head, raised |-> answer.body.raises]
                 ELSE [printed |-> head \o api_extract(answer.body), raised |-> "none"]
            ELSE [printed |-> head \o <<Msg("FAIL!")>>, raised |-> "none"]

\* ----------------------------------------------------------------- actions
Init ==
    /\ script = "none"
    /\ fs = {}
    /\ ran = FALSE
    /\ lines = <<>>
    /\ crashed = FALSE
    /\ pc = "start"
    /\ case_i = 1
    /\ posts = <<>>
    /\ last = NoAnswer
    /\ printed = <<>>

CanCreate(parent, name) ==
    /\ script = "none"
    /\ Cardinality(fs) < MaxEntries
    /\ Len(parent) < MaxDepth
    /\ isdir(fs, parent)
    /\ Append(parent, name) \notin Paths(fs)

\* the environment creates a directory
Mkdir ==
    \E parent \in Paths(fs) \cup {<<>>}, name \in Names :
        /\ CanCreate(parent, name)
        /\ fs' = fs \cup {[path |-> Append(parent, name), kind |-> "dir", readable |-> TRUE]}
        /\ UNCHANGED <<script, ran, lines, crashed, http>>

\* the environment creates a regular file
Touch ==
    \E parent \in Paths(fs) \cup {<<>>}, name \in Names :
        /\ CanCreate(parent, name)
        /\ fs' = fs \cup {[path |-> Append(parent, name), kind |-> "file", readable |-> TRUE]}
        /\ UNCHANGED <<script, ran, lines, crashed, http>>

\* the environment withdraws read permission from a subdirectory
Chmod ==
    \E e \in fs :
        /\ script = "none"
        /\ e.kind = "dir"
        /\ e.readable
        /\ fs' = (fs \ {e}) \cup {[e EXCEPT !.readable = FALSE]}
        /\ UNCHANGED <<script, ran, lines, crashed, http>>

Finish(name, result) ==
    /\ script' = name
    /\ ran' = TRUE
    /\ lines' = result.lines
    /\ crashed' = ~result.ok
    /\ UNCHANGED <<fs, http>>

\* tree.py line 15: tree(r"G:\go_internist")
RunTree ==
    /\ script = "none"
    /\ Finish("tree.py", tree(fs, <<>>, <<>>))

\* tee.py line 24: build_tree(root_directory)
RunBuildTree ==
    /\ script = "none"
    /\ Finish("tee.py", build_tree(fs, <<>>, <<>>))

\* zprj_tree.py line 31: print_tree('.')
RunPrintTree ==
    /\ script = "none"
    /\ Finish("zprj_tree.py", print_tree(fs, <<>>, <<>>))

\* ai.py line 161: test_api_connectivity()
TestApiConnectivity ==
    /\ script = "none" /\ fs = {}
    /\ \E answer \in AiAnswers :
          LET r == TryExcept(connectivity_try(answer), connectivity_except(connectivity_try(answer).raised))
          IN /\ last' = answer
             /\ printed' = r.printed
             /\ crashed' = r.escaped
             /\ pc' = IF r.escaped THEN "crashed" ELSE "translation"
    /\ script' = "ai.py"
    /\ UNCHANGED <<fs, ran, lines, case_i, posts>>

\* ai.py lines 48-113: one iteration of the loop over test_cases
TranslationCase ==
    /\ script = "ai.py" /\ pc = "translation" /\ case_i <= TestCases
    /\ \E answer \in AiAnswers :
          LET r == TryExcept(translation_try(answer), translation_except(translation_try(answer).raised))
          IN /\ last' = answer
             /\ posts' = Append(posts, case_i)
             /\ crashed' = r.escaped
             /\ IF r.escaped
                THEN /\ printed' = r.printed
                     /\ pc' = "crashed"
                     /\ case_i' = case_i
                ELSE /\ printed' = r.printed \o <<Msg("-----")>>
                     /\ pc' = pc
                     /\ case_i' = case_i + 1
    /\ UNCHANGED <<script, fs, ran, lines>>

\* ai.py line 115: the loop is over
TranslationCompleted ==
    /\ script = "ai.py" /\ pc = "translation" /\ case_i > TestCases
    /\ printed' = <<Msg("Test completed!")>>
    /\ pc' = "done"
    /\ UNCHANGED <<script, fs, ran, lines, crashed, case_i, posts, last>>

\* api.py, the whole script
RunApi ==
    /\ script = "none" /\ fs = {}
    /\ \E answer \in ApiAnswers :
          LET r == api_script(answer)
          IN /\ last' = answer
             /\ printed' = r.printed
             /\ crashed' = (r.raised # "none")
             /\ pc' = IF r.raised # "none" THEN "crashed" ELSE "done"
    /\ script' = "api.py"
    /\ UNCHANGED <<fs, ran, lines, case_i, posts>>

Next ==
    \/ Mkdir
    \/ Touch
    \/ Chmod
    \/ RunTree
    \/ RunBuildTree
    \/ RunPrintTree
    \/ TestApiConnectivity
    \/ TranslationCase
    \/ TranslationCompleted
    \/ RunApi

Spec == Init /\ [][Next]_vars

\* ai.py alone.  The script is sequential and every call in it returns or
\* raises (the POSTs carry a timeout), so a step that can be taken is taken.
AiNext == TestApiConnectivity \/ TranslationCase \/ TranslationCompleted
AiSpec == Init /\ [][AiNext]_vars /\ WF_vars(AiNext)

\* ================================================================ claims
\* Helpers the properties are stated with.

IsPrefix(p, q) == Len(p) <= Len(q) /\ SubSeq(q, 1, Len(p)) = p
IsProperPrefix(p, q) == Len(p) < Len(q) /\ SubSeq(q, 1, Len(p)) = p

\* The entry at path p is left out by the running script's own filter.
Excluded(p) ==
    IF script = "tree.py" THEN Last(p) \in tree_exclude
    ELSE IF script = "tee.py" THEN build_tree_excluded(Last(p))
    ELSE isdir(fs, p) /\ Last(p) \in SKIP

\* Neither the entry nor one of its ancestors below the root is excluded.
Listed(p) == \A k \in 1..Len(p) : ~Excluded(SubSeq(p, 1, k))
ListedPaths == {p \in Paths(fs) : Listed(p)}

\* A directory the walk has to list is unreadable.
ListingError == \E e \in fs : ~e.readable /\ Listed(e.path)

\* What a reader of the output recovers from one line: the number of leading
\* 4-character indentation units, and the 4 characters that follow them.
RECURSIVE ParseDepth(_)
ParseDepth(text) ==
    IF Len(text) >= 4 /\ SubSeq(text, 1, 4) \in {Bar, Blank}
    THEN 1 + ParseDepth(SubSeq(text, 5, Len(text)))
    ELSE 0
ParseConnector(text) == SubSeq(text, 4 * ParseDepth(text) + 1, 4 * ParseDepth(text) + 4)

LinesOf(p) == {i \in 1..Len(lines) : lines[i].entry = p}
SiblingLines(d) == {i \in 1..Len(lines) : Parent(lines[i].entry) = d}
SubtreeLines(d) == {i \in 1..Len(lines) : IsPrefix(d, lines[i].entry)}
Max(S) == CHOOSE x \in S : \A y \in S : y <= x
Min(S) == CHOOSE x \in S : \A y \in S : x <= y

\* C1: on a fixture without listing errors the traversal emits exactly one
\* line per entry that is, with all its ancestors, not excluded by the
\* running variant, and no other line: the line count is the entry count.
C1_LineCount ==
    (ran /\ script \in TreeScripts /\ ~ListingError) =>
        /\ ~crashed
        /\ Len(lines) = Cardinality(ListedPaths)
        /\ \A p \in ListedPaths : Cardinality(LinesOf(p)) = 1
        /\ \A i \in 1..Len(lines) : lines[i].entry \in ListedPaths

\* C1 witness: print_tree has walked a fixture with a skipped directory that
\* holds an entry, and emitted a line for what is beside it.
C1_Witness ==
    /\ ran /\ script = "zprj_tree.py" /\ ~ListingError
    /\ Len(lines) >= 1
    /\ \E p \in Paths(fs) : ~Listed(p) /\ Len(p) = 2 /\ ~Excluded(p)

\* The directories whose listing the walk obtained: the root and every
\* readable directory it reached.  A build_tree that raised returned no
\* line, so it has no level to speak of.
ListedLevels ==
    IF crashed /\ script = "tee.py" THEN {}
    ELSE {<<>>} \cup {lines[i].entry : i \in {j \in 1..Len(lines) :
                         isdir(fs, lines[j].entry) /\ ~ListingFails(fs, lines[j].entry)}}
LevelSize(d) == Cardinality({p \in ListedPaths : Parent(p) = d})

LevelConnectorsOK(d) ==
    LevelSize(d) >= 1 =>
        /\ Cardinality(SiblingLines(d)) = LevelSize(d)
        /\ \A i \in SiblingLines(d) :
              ParseConnector(lines[i].text) =
                 IF i = Max(SiblingLines(d)) THEN Corner ELSE Branch

\* C2 as stated: in every variant, every directory level that lists n >= 1
\* entries has n sibling lines, the last one emitted carrying the corner
\* connector and each of the others the branch connector.
C2_Original ==
    (ran /\ script \in TreeScripts) => \A d \in ListedLevels : LevelConnectorsOK(d)

\* C2 amended: the same, for a traversal that runs to completion (no listing
\* error escapes it).
C2_Connectors ==
    (ran /\ script \in TreeScripts /\ ~crashed) => \A d \in ListedLevels : LevelConnectorsOK(d)

\* C2 witness: a completed walk with a level of several siblings and a
\* nested level.
C2_Witness ==
    /\ ran /\ script \in TreeScripts /\ ~crashed
    /\ \E d \in ListedLevels : LevelSize(d) >= 2
    /\ \E d \in ListedLevels : d # <<>> /\ LevelSize(d) >= 1

\* C3: the indentation level read back from each emitted line equals the
\* nesting depth of its entry below the root (0 for the root's children).
C3_DepthRoundTrip ==
    (ran /\ script \in TreeScripts) =>
        \A i \in 1..Len(lines) : ParseDepth(lines[i].text) = Len(lines[i].entry) - 1

\* C3 witness: a line for an entry two levels below the root's children.
C3_Witness ==
    /\ ran /\ script \in TreeScripts
    /\ \E i \in 1..Len(lines) :
          /\ Len(lines[i].entry) = 3
          /\ ParseDepth(lines[i].text) = 2

\* The running variant's sibling order on two names of directory d.
SiblingBefore(d, a, b) ==
    LET da == isdir(fs, Append(d, a))
        db == isdir(fs, Append(d, b))
    IN IF script = "tree.py" THEN StrLess(a, b)
       ELSE IF da # db THEN da
       ELSE IF script = "tee.py" THEN StrLess(lower(a), lower(b))
       ELSE StrLess(a, b)

\* C9: the output is a depth-first pre-order listing: a directory's line
\* precedes the lines of everything inside it, its subtree's lines are one
\* contiguous block starting at its own line, and siblings come in the
\* variant's sort order.
C9_PreOrder ==
    (ran /\ script \in TreeScripts) =>
        \A i \in 1..Len(lines) :
            /\ \A j \in 1..Len(lines) :
                  IsProperPrefix(lines[i].entry, lines[j].entry) => i < j
            /\ SubtreeLines(lines[i].entry) =
                  i..(i + Cardinality(SubtreeLines(lines[i].entry)) - 1)
            /\ \A j \in 1..Len(lines) :
                  (i < j /\ Parent(lines[i].entry) = Parent(lines[j].entry)) =>
                      SiblingBefore(Parent(lines[i].entry),
                                    Last(lines[i].entry), Last(lines[j].entry))

\* C9 witness: a directory with an entry inside it, followed by a sibling,
\* where the siblings are an upper-case and a lower-case name.
C9_Witness ==
    /\ ran /\ script = "tee.py"
    /\ Len(lines) = 3
    /\ Len(lines[1].entry) = 1 /\ Len(lines[2].entry) = 2 /\ Len(lines[3].entry) = 1
    /\ Last(lines[1].entry) = NameA /\ Last(lines[3].entry) = NameB

\* The fixture with everything below an unreadable directory removed and
\* that directory readable: the same tree with those subdirectories empty.
Emptied(F) ==
    {[e EXCEPT !.readable = TRUE] :
        e \in {x \in F : ~\E u \in F : ~u.readable /\ IsProperPrefix(u.path, x.path)}}

\* C10: print_tree absorbs a permission error on a subdirectory: its output
\* is exactly its output on the same tree with that subdirectory empty.
C10_PermissionSwallowed ==
    (ran /\ script = "zprj_tree.py") =>
        /\ ~crashed
        /\ lines = print_tree(Emptied(fs), <<>>, <<>>).lines

\* C10 witness: an unreadable, non-empty subdirectory whose own line is
\* emitted and is followed by the line of a later sibling.
C10_Witness ==
    /\ ran /\ script = "zprj_tree.py"
    /\ \E u \in fs :
          /\ ~u.readable
          /\ \E x \in fs : IsProperPrefix(u.path, x.path)
          /\ \E i \in 1..Len(lines) :
                /\ lines[i].entry = u.path
                /\ i < Len(lines)
                /\ Parent(lines[i + 1].entry) = Parent(u.path)

\* ------------------------------------------------------- ai.py and api.py
\* The state right after test_avalai_translation handled a test case.
AfterCase == script = "ai.py" /\ posts # <<>> /\ pc # "done"
\* The state right after test_api_connectivity ended.
AfterConnectivity == script = "ai.py" /\ posts = <<>>

\* C4: when the POST of a test case times out, the timeout message is
\* printed, no exception escapes, and the loop goes on after that case.
C4_TimeoutHandled ==
    (AfterCase /\ last.kind = "Timeout") =>
        /\ Said("Request timed out (30s)")
        /\ ~crashed
        /\ pc = "translation"
        /\ case_i = Last(posts) + 1
        /\ ENABLED (TranslationCase \/ TranslationCompleted)

\* C4 witness: the second test case has just timed out.
C4_Witness ==
    /\ AfterCase /\ last.kind = "Timeout"
    /\ posts = <<1, 2>> /\ case_i = 3

\* C5: on status 401 the connectivity check prints "API Key is invalid or
\* expired" and returns without raising, whatever the body is.
C5_Unauthorized ==
    (AfterConnectivity /\ last.kind = "response" /\ last.status = 401) =>
        /\ Said("API Key is invalid or expired")
        /\ ~crashed
        /\ pc = "translation"

\* C5 witness: a 401 whose body is not JSON, response.json() raising a
\* ValueError.
C5_Witness ==
    /\ AfterConnectivity /\ last.kind = "response" /\ last.status = 401
    /\ last.body.shape = "not_json" /\ last.body.raises = "ValueError"

\* t without its leading and trailing run of characters of chars, said
\* without peeling: the span from the first to the last character not in chars.
Core(t, chars) ==
    LET keep == {k \in 1..Len(t) : t[k] \notin chars}
    IN IF keep = {} THEN <<>> ELSE SubSeq(t, Min(keep), Max(keep))
Stripped(t) == Core(Core(t, Whitespace), {"\""})

TranslationOf(t) ==
    /\ \E k \in 1..Len(printed) : printed[k].msg = "Translation" /\ printed[k].arg = Stripped(t)
    /\ \A k \in 1..Len(printed) : printed[k].msg = "Translation" => printed[k].arg = Stripped(t)
    /\ Said("Translation is not empty") <=> Stripped(t) # <<>>
    /\ Said("Translation is empty!") <=> Stripped(t) = <<>>
    /\ t \in {Hello, QuotedHello} => Stripped(t) = Hello

\* C6 as stated: on status 200 with a body that has an output_text field, the
\* printed translation is the value stripped of surrounding whitespace and
\* double quotes, and it is reported non-empty exactly when it is.
C6_Original ==
    (AfterCase /\ last.kind = "response" /\ last.status = 200
       /\ last.body.shape \in {"output_text_str", "output_text_other"}) =>
        TranslationOf(last.body.text)

\* C6 amended: the same, for a body whose output_text field is a string.
C6_Translation ==
    (AfterCase /\ last.kind = "response" /\ last.status = 200
       /\ last.body.shape = "output_text_str") =>
        TranslationOf(last.body.text)

\* C6 witness: output_text is "hello" in double quotes and hello is printed.
C6_Witness ==
    /\ AfterCase /\ last.kind = "response" /\ last.status = 200
    /\ last.body.shape = "output_text_str" /\ last.body.text = QuotedHello
    /\ \E k \in 1..Len(printed) : printed[k].msg = "Translation" /\ printed[k].arg = Hello

AllCases == [k \in 1..TestCases |-> k]

\* C7: whatever the endpoint answers, test_avalai_translation POSTs each test
\* case exactly once, in list order, a failure ending only its own case, and
\* it always reaches its final "Test completed" message.
C7_EveryCaseOnce ==
    /\ [](script = "ai.py" =>
            /\ ~crashed
            /\ Len(posts) <= TestCases
            /\ posts = SubSeq(AllCases, 1, Len(posts)))
    /\ [][script = "ai.py" =>
            \/ posts' = posts
            \/ posts' = Append(posts, Len(posts) + 1) /\ case_i' = Len(posts') + 1]_vars
    /\ (script = "ai.py" ~> (pc = "done" /\ posts = AllCases /\ Said("Test completed!")))

\* C7 witness: the function has completed after its last POST failed.
C7_Witness ==
    /\ script = "ai.py" /\ pc = "done" /\ posts = AllCases
    /\ last.kind = "ConnectionError" /\ Said("Test completed!")

\* The error conditions C8 names for api.py's single call.
ApiErrorCondition ==
    \/ last.kind \in {"Timeout", "ConnectionError"}
    \/ last.kind = "response" /\ last.status # 200
    \/ last.kind = "response" /\ last.status = 200
         /\ last.body.shape \in {"not_object", "no_choices", "empty_choices",
                                 "no_message", "no_content"}

\* C8: each of those conditions is caught and printed, and the script ends
\* normally with no uncaught exception.
C8_ApiErrorsHandled ==
    (script = "api.py" /\ ApiErrorCondition) =>
        /\ ~crashed
        /\ pc = "done"
        /\ printed # <<>>

====
